---- MODULE Spec2Model ----
(***************************************************************************)
(* Model of scripts/upload-to-microcms.js: the MicroCMSUploader class      *)
(* (uploadImage, findPngFiles, uploadDirectory) and the entry point main.  *)
(*                                                                         *)
(* Spec      : one run of main, from the environment read to process exit. *)
(* SpecFind  : findPngFiles applied to every bounded directory tree.       *)
(***************************************************************************)
EXTENDS Integers, Sequences, FiniteSets, TLC

\* ---------------------------------------------------------------- bounds
\* entries below the root in the directory trees of SpecFind
MaxNodes == 3
\* entries below the root in the directory trees of Spec
MaxBatchNodes == 3

\* ------------------------------------------------------- names and paths
\* A name is a sequence of one-character strings; a path is a sequence of
\* names (its components).  screenshotsPath is '/tmp/playwright-mcp-output'.
screenshotsPath == << <<"t","m","p">>, <<"o","u","t">> >>

\* String.prototype.toLowerCase on the characters the model uses.
LowerChar(c) ==
  CASE c = "P" -> "p"
    [] c = "N" -> "n"
    [] c = "G" -> "g"
    [] OTHER -> c

toLowerCase(s) == [k \in 1..Len(s) |-> LowerChar(s[k])]

\* String.prototype.endsWith
endsWith(s, suffix) ==
  /\ Len(suffix) <= Len(s)
  /\ SubSeq(s, Len(s) - Len(suffix) + 1, Len(s)) = suffix

DotPng == <<".","p","n","g">>
DotJpg == <<".","j","p","g">>
DotJpeg == <<".","j","p","e","g">>

\* path.join(currentPath, entry.name)
join(currentPath, name) == Append(currentPath, name)

\* path.basename(filePath)
basename(filePath) == filePath[Len(filePath)]

\* path.relative(directoryPath, filePath) for a filePath below directoryPath
relative(directoryPath, filePath) ==
  SubSeq(filePath, Len(directoryPath) + 1, Len(filePath))

\* path.extname(filePath): from the last '.' of the basename to its end; empty
\* when there is no '.', when the last '.' is the first character, or for '..'
LastDot(s) ==
  LET dots == {k \in 1..Len(s) : s[k] = "."}
  IN IF dots = {} THEN 0 ELSE CHOOSE k \in dots : \A j \in dots : j <= k

extname(filePath) ==
  LET b == basename(filePath)
      d == LastDot(b)
  IN IF d <= 1 \/ b = <<".", ".">> THEN <<>> ELSE SubSeq(b, d, Len(b))

\* ----------------------------------------------------- the directory tree
\* A tree is a sequence of entries; entry k lives in directory `parent`
\* (0 is the scanned root, otherwise an earlier entry of kind "dir").
\* readdir lists a directory's entries in ascending index order.  An entry
\* of kind "other" is neither a regular file nor a directory (symbolic link,
\* socket, ...).  `readable` says whether readdir succeeds on a directory.
Stem(k) == <<ToString(k)>>

\* the shapes an entry may have in the trees of SpecFind, and of Spec
EntryShapes == {"dir", "dirUnreadable", "png", "PNg", "txt", "nodot", "hidden", "other"}
BatchEntryShapes == {"dir", "png", "txt", "hidden"}

EntryKind(shape) ==
  CASE shape \in {"dir", "dirUnreadable"} -> "dir"
    [] shape = "other" -> "other"
    [] OTHER -> "file"

EntryName(k, shape) ==
  CASE shape \in {"dir", "dirUnreadable"} -> Stem(k)
    [] shape \in {"png", "other"} -> Stem(k) \o <<".","p","n","g">>
    [] shape = "PNg" -> Stem(k) \o <<".","P","N","g">>
    [] shape = "txt" -> Stem(k) \o <<".","t","x","t">>
    [] shape = "nodot" -> Stem(k) \o <<"p","n","g">>
    [] shape = "hidden" -> <<".","p","n","g">>

TreeOf(n, shapes, parents) ==
  [k \in 1..n |-> [parent |-> parents[k], kind |-> EntryKind(shapes[k]),
                   name |-> EntryName(k, shapes[k]),
                   readable |-> shapes[k] # "dirUnreadable"]]

\* every entry lives in the root or in an earlier directory, and two entries
\* of one directory never share a name
ParentMaps(n, shapes) ==
  {f \in [1..n -> 0..n] :
     /\ \A k \in 1..n :
          /\ f[k] < k
          /\ IF f[k] = 0 THEN TRUE ELSE EntryKind(shapes[f[k]]) = "dir"
     /\ \A j, k \in 1..n :
          (j < k /\ f[j] = f[k]) => EntryName(j, shapes[j]) # EntryName(k, shapes[k])}

\* t is a tree of at most max entries with shapes drawn from shapeSet
IsTree(t, max, shapeSet) ==
  \E n \in 0..max : \E shapes \in [1..n -> shapeSet] :
    \E parents \in ParentMaps(n, shapes) : t = TreeOf(n, shapes, parents)

\* fs.readdir(currentPath, {withFileTypes: true}) on directory d of tree t
readdir(t, d) == SelectSeq([k \in 1..Len(t) |-> k], LAMBDA k : t[k].parent = d)

\* ------------------------------------------------------------ findPngFiles
\* entry.name.toLowerCase().endsWith('.png')
\* (faulty variant, for the sensitivity of the properties)
IsPngNameCaseSensitive(name) == endsWith(name, DotPng)
IsPngName(name) == endsWith(toLowerCase(name), DotPng)

\* the catch block of scanDirectory: warn and return normally, keeping what
\* has been pushed to pngFiles so far
\* (faulty variant, for the sensitivity of the properties)
ScanCatchRethrow(acc) == [threw |-> TRUE, files |-> acc]
ScanCatch(acc) == [threw |-> FALSE, files |-> acc]

\* scanDirectory(currentPath) on directory d whose path is currentPath, with
\* acc the contents of the shared pngFiles array; scanEntries is its for loop
RECURSIVE scanDirectory(_, _, _, _, _)
RECURSIVE scanEntries(_, _, _, _, _)
scanDirectory(t, rootReadable, d, currentPath, acc) ==
  LET canRead == IF d = 0 THEN rootReadable ELSE t[d].readable
  IN IF ~canRead
       THEN ScanCatch(acc)
       ELSE LET r == scanEntries(t, rootReadable, readdir(t, d), currentPath, acc)
            IN IF r.threw THEN ScanCatch(r.files) ELSE r

scanEntries(t, rootReadable, entries, currentPath, acc) ==
  IF entries = <<>> THEN [threw |-> FALSE, files |-> acc]
  ELSE LET e == Head(entries)
           fullPath == join(currentPath, t[e].name)
       IN IF t[e].kind = "dir"
            THEN LET r == scanDirectory(t, rootReadable, e, fullPath, acc)
                 IN IF r.threw THEN r
                    ELSE scanEntries(t, rootReadable, Tail(entries), currentPath, r.files)
            ELSE IF t[e].kind = "file" /\ IsPngName(t[e].name)
                   THEN scanEntries(t, rootReadable, Tail(entries), currentPath,
                                    Append(acc, fullPath))
                   ELSE scanEntries(t, rootReadable, Tail(entries), currentPath, acc)

findPngFiles(t, rootReadable, directoryPath) ==
  scanDirectory(t, rootReadable, 0, directoryPath, <<>>)

\* ------------------------------------------------------------- environment
\* A variable of process.env: unset (undefined) or set to a string.
Unset == [set |-> FALSE, val |-> ""]
EnvStr(v) == [set |-> TRUE, val |-> v]

\* truthiness of process.env.X: undefined and '' are falsy
Truthy(v) == v.set /\ v.val # ""

\* !serviceDomain || !apiKey
\* (faulty variant, for the sensitivity of the properties)
CredentialsMissingDomainOnly(serviceDomain, apiKey) == ~Truthy(serviceDomain)
CredentialsMissing(serviceDomain, apiKey) == ~Truthy(serviceDomain) \/ ~Truthy(apiKey)

\* process.env.GITHUB_ACTIONS === 'true'
\* (faulty variant, for the sensitivity of the properties)
IsGithubActionsTruthy(v) == Truthy(v)
IsGithubActions(v) == v.set /\ v.val = "true"

\* ------------------------------------------------------------- uploadImage
NoUrl == "<none>"
Undefined == "<undefined>"
NoError == [kind |-> "none", status |-> 0, statusText |-> "", body |-> "", ext |-> <<>>]
Err(kind) == [NoError EXCEPT !.kind = kind]

\* the switch on fileExtension
contentType(fileExtension) ==
  CASE fileExtension = DotPng -> "image/png"
    [] fileExtension \in {DotJpg, DotJpeg} -> "image/jpeg"
    [] OTHER -> "unsupported"

\* what the server may answer: status line and body text
BodyUrl == "{\"url\":\"https://x/y.png\"}"
BodyEmptyObject == "{}"
BodyNull == "null"
BodyHtml == "<html>"
Responses ==
  {[status |-> 200, statusText |-> "OK", body |-> BodyUrl],
   [status |-> 299, statusText |-> "", body |-> BodyEmptyObject],
   [status |-> 200, statusText |-> "OK", body |-> BodyNull],
   [status |-> 200, statusText |-> "OK", body |-> BodyHtml],
   [status |-> 300, statusText |-> "Multiple Choices", body |-> BodyHtml],
   [status |-> 500, statusText |-> "Internal Server Error", body |-> BodyUrl]}
NoResponse == [status |-> 0, statusText |-> "", body |-> ""]

\* response.ok: the status is in the range 200-299
\* (faulty variant, for the sensitivity of the properties)
ResponseOkBelow400(status) == status < 400
ResponseOk(status) == status >= 200 /\ status <= 299

\* response.json(): parse the body text; result.url of the parsed value
JsonParse(body) ==
  CASE body = BodyUrl -> [ok |-> TRUE, isNull |-> FALSE, url |-> "https://x/y.png"]
    [] body = BodyEmptyObject -> [ok |-> TRUE, isNull |-> FALSE, url |-> Undefined]
    [] body = BodyNull -> [ok |-> TRUE, isNull |-> TRUE, url |-> Undefined]
    [] OTHER -> [ok |-> FALSE, isNull |-> FALSE, url |-> Undefined]

\* the catch block of uploadImage: log and rethrow
UploadImageCatch(error) == [threw |-> TRUE, url |-> NoUrl, error |-> error]
UploadImageReturn(url) == [threw |-> FALSE, url |-> url, error |-> NoError]

\* uploadImage from the response on: the ok test, the error text, the parse
UploadImageAfterFetch(response) ==
  IF ~ResponseOk(response.status)
    THEN UploadImageCatch([kind |-> "Upload failed", status |-> response.status,
                           statusText |-> response.statusText,
                           body |-> response.body, ext |-> <<>>])
    ELSE LET result == JsonParse(response.body)
         IN IF ~result.ok THEN UploadImageCatch(Err("SyntaxError"))
            ELSE IF result.isNull THEN UploadImageCatch(Err("TypeError"))
            ELSE UploadImageReturn(result.url)

\* --------------------------------------------------------- uploadDirectory
\* the entry pushed by the try branch of the loop body
SuccessEntry(directoryPath, filePath, url) ==
  [fileName |-> basename(filePath),
   relativePath |-> relative(directoryPath, filePath),
   success |-> TRUE, url |-> url, error |-> NoError]

\* the entries pushed by the catch branch of the loop body
\* (faulty variant, for the sensitivity of the properties)
FailureEntriesNone(directoryPath, filePath, error) == <<>>
FailureEntries(directoryPath, filePath, error) ==
  << [fileName |-> basename(filePath),
      relativePath |-> relative(directoryPath, filePath),
      success |-> FALSE, url |-> NoUrl, error |-> error] >>

\* `await this.uploadImage(filePath)`: the loop body of the next file starts
\* only when no upload is under way
\* (faulty variant, for the sensitivity of the properties)
AwaitUploadImageMissing(stages) == TRUE
AwaitUploadImage(stages) == \A k \in DOMAIN stages : stages[k] \in {"idle", "done"}

\* the number of files the loop has consumed once the catch branch is done:
\* the loop goes on with the next file
\* (faulty variant, for the sensitivity of the properties)
LoopAfterCatchBreak(started, total) == total
LoopAfterCatch(started, total) == started

\* ------------------------------------------------------------------- main
\* results.filter(r => r.success), results.filter(r => !r.success)
successfulOf(results) == SelectSeq(results, LAMBDA r : r.success)
failedOf(results) == SelectSeq(results, LAMBDA r : ~r.success)

\* the exit code main ends with after the summary
\* (faulty variant, for the sensitivity of the properties)
FinalExitCodeAlwaysZero(failedUploads) == 0
FinalExitCode(failedUploads) == IF Len(failedUploads) > 0 THEN 1 ELSE 0

\* the try/catch around fs.access(screenshotsPath): when access fails main
\* exits with code 0, otherwise it goes on
\* (faulty variant, for the sensitivity of the properties)
AccessCheckIgnored(exists) == [exit |-> FALSE, code |-> -1]
AccessCheck(exists) ==
  IF ~exists THEN [exit |-> TRUE, code |-> 0] ELSE [exit |-> FALSE, code |-> -1]

VARIABLES env, tree, rootReadable, dirExists, pc, pngFiles, threw, started,
          stages, inflight, requests, received, uploadResults, out,
          jsonOutput, exitCode, calls

vars == <<env, tree, rootReadable, dirExists, pc, pngFiles, threw, started,
          stages, inflight, requests, received, uploadResults, out,
          jsonOutput, exitCode, calls>>

NoCalls == [access |-> 0, readdir |-> 0, readFile |-> 0, fetch |-> 0]

EnvValues == {Unset, EnvStr(""), EnvStr("example")}
GithubActionsValues == {Unset, EnvStr("true"), EnvStr("TRUE")}

InitRun ==
  /\ pngFiles = <<>>
  /\ threw = FALSE
  /\ started = 0
  /\ stages = <<>>
  /\ inflight = {}
  /\ requests = <<>>
  /\ received = <<>>
  /\ uploadResults = <<>>
  /\ out = <<>>
  /\ jsonOutput = <<>>
  /\ exitCode = -1
  /\ calls = NoCalls

Init ==
  /\ env \in [MICROCMS_SERVICE_DOMAIN : EnvValues, MICROCMS_API_KEY : EnvValues,
              GITHUB_ACTIONS : GithubActionsValues]
  /\ dirExists \in BOOLEAN
  /\ rootReadable \in (IF dirExists THEN BOOLEAN ELSE {FALSE})
  /\ IsTree(tree, IF rootReadable THEN MaxBatchNodes ELSE 0, BatchEntryShapes)
  /\ pc = "main"
  /\ InitRun

Exit(code) ==
  /\ pc' = "exited"
  /\ exitCode' = code

\* main, lines 137-144: read the credentials; exit 1 when one is missing
MainCheckCredentials ==
  /\ pc = "main"
  /\ IF CredentialsMissing(env.MICROCMS_SERVICE_DOMAIN, env.MICROCMS_API_KEY)
       THEN /\ out' = Append(out, "CredentialsRequired")
            /\ Exit(1)
       ELSE /\ pc' = "access"
            /\ UNCHANGED <<out, exitCode>>
  /\ UNCHANGED <<env, tree, rootReadable, dirExists, pngFiles, threw, started,
                 stages, inflight, requests, received, uploadResults,
                 jsonOutput, calls>>

\* main, lines 146-157: fs.access(screenshotsPath); exit 0 when it fails
MainAccess ==
  /\ pc = "access"
  /\ calls' = [calls EXCEPT !.access = @ + 1]
  /\ IF AccessCheck(dirExists).exit
       THEN /\ out' = Append(out, "DirectoryNotFound")
            /\ Exit(AccessCheck(dirExists).code)
       ELSE /\ out' = Append(out, "UploadingFrom")
            /\ pc' = "uploadDirectory"
            /\ UNCHANGED exitCode
  /\ UNCHANGED <<env, tree, rootReadable, dirExists, pngFiles, threw, started,
                 stages, inflight, requests, received, uploadResults,
                 jsonOutput>>

\* uploadDirectory, lines 93-102 and its catch (129-132), with main's catch
\* (184-187) for a rejection of findPngFiles
UploadDirectoryFind ==
  /\ pc = "uploadDirectory"
  /\ LET r == findPngFiles(tree, rootReadable, screenshotsPath)
         n == Len(r.files)
     IN /\ calls' = [calls EXCEPT !.readdir = @ + 1]
        /\ threw' = r.threw
        /\ IF r.threw
             THEN /\ out' = out \o <<"FailedToProcessDirectory", "UploadScriptFailed">>
                  /\ Exit(1)
                  /\ UNCHANGED <<pngFiles, stages, requests, received>>
             ELSE /\ pngFiles' = r.files
                  /\ stages' = [k \in 1..n |-> "idle"]
                  /\ requests' = [k \in 1..n |-> 0]
                  /\ received' = [k \in 1..n |-> NoResponse]
                  /\ UNCHANGED exitCode
                  /\ IF n = 0
                       THEN /\ out' = Append(out, "NoPngFiles")
                            /\ pc' = "summary"
                       ELSE /\ out' = Append(out, "Found")
                            /\ pc' = "loop"
  /\ UNCHANGED <<env, tree, rootReadable, dirExists, started, inflight,
                 uploadResults, jsonOutput>>

\* the end of uploadImage(pngFiles[k]) in the loop body, lines 108-125: push
\* the entry for the outcome and log it
Settle(k, outcome) ==
  /\ stages' = [stages EXCEPT ![k] = "done"]
  /\ IF outcome.threw
       THEN /\ uploadResults' = uploadResults \o
                  FailureEntries(screenshotsPath, pngFiles[k], outcome.error)
            /\ out' = out \o <<"FailedToUpload", "Failed">>
            /\ started' = LoopAfterCatch(started, Len(pngFiles))
       ELSE /\ uploadResults' = Append(uploadResults,
                  SuccessEntry(screenshotsPath, pngFiles[k], outcome.url))
            /\ out' = Append(out, "Uploaded")
            /\ started' = started

\* the loop takes the next file (lines 104-109) and uploadImage starts to
\* read it (line 15)
LoopNext ==
  /\ pc = "loop"
  /\ started < Len(pngFiles)
  /\ AwaitUploadImage(stages)
  /\ started' = started + 1
  /\ stages' = [stages EXCEPT ![started + 1] = "reading"]
  /\ calls' = [calls EXCEPT !.readFile = @ + 1]
  /\ UNCHANGED <<env, tree, rootReadable, dirExists, pc, pngFiles, threw,
                 inflight, requests, received, uploadResults, out, jsonOutput,
                 exitCode>>

\* uploadImage, lines 15-52: fs.readFile settles; on success the content type
\* is chosen and the request is sent
UploadImageRead(k) ==
  /\ pc = "loop"
  /\ stages[k] = "reading"
  /\ \E readOk \in BOOLEAN :
       LET fileExtension == toLowerCase(extname(pngFiles[k]))
       IN IF ~readOk
            THEN /\ Settle(k, UploadImageCatch(Err("ENOENT")))
                 /\ UNCHANGED <<inflight, requests, calls>>
            ELSE IF contentType(fileExtension) = "unsupported"
              THEN /\ Settle(k, UploadImageCatch(
                          [Err("Unsupported file type") EXCEPT !.ext = fileExtension]))
                   /\ UNCHANGED <<inflight, requests, calls>>
              ELSE /\ stages' = [stages EXCEPT ![k] = "fetching"]
                   /\ inflight' = inflight \cup {k}
                   /\ requests' = [requests EXCEPT ![k] = @ + 1]
                   /\ calls' = [calls EXCEPT !.fetch = @ + 1]
                   /\ UNCHANGED <<started, uploadResults, out>>
  /\ UNCHANGED <<env, tree, rootReadable, dirExists, pc, pngFiles, threw,
                 received, jsonOutput, exitCode>>

\* uploadImage, lines 44-60: fetch rejects (network error)
UploadImageFetchReject(k) ==
  /\ pc = "loop"
  /\ stages[k] = "fetching"
  /\ inflight' = inflight \ {k}
  /\ Settle(k, UploadImageCatch(Err("fetch failed")))
  /\ UNCHANGED <<env, tree, rootReadable, dirExists, pc, pngFiles, threw,
                 requests, received, jsonOutput, exitCode, calls>>

\* uploadImage, lines 44-60: fetch resolves with a response
UploadImageResponse(k) ==
  /\ pc = "loop"
  /\ stages[k] = "fetching"
  /\ \E response \in Responses :
       /\ received' = [received EXCEPT ![k] = response]
       /\ Settle(k, UploadImageAfterFetch(response))
  /\ inflight' = inflight \ {k}
  /\ UNCHANGED <<env, tree, rootReadable, dirExists, pc, pngFiles, threw,
                 requests, jsonOutput, exitCode, calls>>

\* uploadDirectory, line 128: the loop is over, return uploadResults
UploadDirectoryReturn ==
  /\ pc = "loop"
  /\ started = Len(pngFiles)
  /\ AwaitUploadImage(stages)
  /\ pc' = "summary"
  /\ UNCHANGED <<env, tree, rootReadable, dirExists, pngFiles, threw, started,
                 stages, inflight, requests, received, uploadResults, out,
                 jsonOutput, exitCode, calls>>

\* main, lines 160-165: split the results and print the summary
MainSummary ==
  /\ pc = "summary"
  /\ out' = out \o <<"UploadSummary", "Successful", "Failed:">>
  /\ pc' = "json"
  /\ UNCHANGED <<env, tree, rootReadable, dirExists, pngFiles, threw, started,
                 stages, inflight, requests, received, uploadResults,
                 jsonOutput, exitCode, calls>>

\* main, lines 167-177: the JSON block for GitHub Actions
MainJson ==
  /\ pc = "json"
  /\ IF IsGithubActions(env.GITHUB_ACTIONS)
       THEN /\ jsonOutput' = << [successful |-> successfulOf(uploadResults),
                                 failed |-> failedOf(uploadResults),
                                 total |-> Len(uploadResults)] >>
            /\ out' = out \o <<"--- UPLOAD_RESULTS_JSON ---", "JSON",
                               "--- END_UPLOAD_RESULTS_JSON ---">>
       ELSE UNCHANGED <<jsonOutput, out>>
  /\ pc' = "exit"
  /\ UNCHANGED <<env, tree, rootReadable, dirExists, pngFiles, threw, started,
                 stages, inflight, requests, received, uploadResults,
                 exitCode, calls>>

\* main, lines 179-182 and the end of main: exit 1 when an upload failed,
\* otherwise the process ends with code 0
MainExit ==
  /\ pc = "exit"
  /\ Exit(FinalExitCode(failedOf(uploadResults)))
  /\ UNCHANGED <<env, tree, rootReadable, dirExists, pngFiles, threw, started,
                 stages, inflight, requests, received, uploadResults, out,
                 jsonOutput, calls>>

Next ==
  \/ MainCheckCredentials
  \/ MainAccess
  \/ UploadDirectoryFind
  \/ LoopNext
  \/ \E k \in DOMAIN stages : UploadImageRead(k)
  \/ \E k \in DOMAIN stages : UploadImageFetchReject(k)
  \/ \E k \in DOMAIN stages : UploadImageResponse(k)
  \/ UploadDirectoryReturn
  \/ MainSummary
  \/ MainJson
  \/ MainExit

Spec == Init /\ [][Next]_vars

\* ---------------------------------------------------------------- SpecFind
\* findPngFiles called on every tree of at most MaxNodes entries
InitFind ==
  /\ env = [MICROCMS_SERVICE_DOMAIN |-> EnvStr("example"),
            MICROCMS_API_KEY |-> EnvStr("example"), GITHUB_ACTIONS |-> Unset]
  /\ dirExists = TRUE
  /\ rootReadable \in BOOLEAN
  /\ IsTree(tree, MaxNodes, EntryShapes)
  /\ pc = "findPngFiles"
  /\ InitRun

FindPngFilesCall ==
  /\ pc = "findPngFiles"
  /\ LET r == findPngFiles(tree, rootReadable, screenshotsPath)
     IN /\ threw' = r.threw
        /\ pngFiles' = r.files
  /\ pc' = "found"
  /\ UNCHANGED <<env, tree, rootReadable, dirExists, started, stages, inflight,
                 requests, received, uploadResults, out, jsonOutput, exitCode,
                 calls>>

NextFind == FindPngFilesCall

SpecFind == InitFind /\ [][NextFind]_vars

\* ------------------------------------------------------------- properties
Range(seq) == {seq[k] : k \in DOMAIN seq}

\* uploadDirectory has returned its result list to main
Returned == calls.readdir = 1 /\ ~threw /\ pc \notin {"uploadDirectory", "loop"}

HasFailure == \E k \in DOMAIN uploadResults : ~uploadResults[k].success
HasSuccess == \E k \in DOMAIN uploadResults : uploadResults[k].success

CredentialsPresent ==
  /\ env.MICROCMS_SERVICE_DOMAIN \notin {Unset, EnvStr("")}
  /\ env.MICROCMS_API_KEY \notin {Unset, EnvStr("")}

\* C1: once uploadDirectory has returned, the result list has one entry per
\* discovered file, in discovery order: same length, and the i-th entry
\* names the i-th discovered file.
C1_OneResultPerFileInOrder ==
  Returned =>
    /\ Len(uploadResults) = Len(pngFiles)
    /\ \A i \in 1..Len(pngFiles) :
         /\ i \in DOMAIN uploadResults
         /\ uploadResults[i].fileName = pngFiles[i][Len(pngFiles[i])]
         /\ screenshotsPath \o uploadResults[i].relativePath = pngFiles[i]

C1_Witness ==
  /\ Returned
  /\ Len(pngFiles) = 3
  /\ Len(uploadResults) = 3
  /\ ~uploadResults[2].success
  /\ uploadResults[3].success

\* the upload of discovered file i succeeded: a request was made and answered
\* with a 2xx status and a body that parses to a JSON object
OwnUploadSucceeded(i) ==
  /\ requests[i] = 1
  /\ received[i].status \in 200..299
  /\ received[i].body \in {BodyUrl, BodyEmptyObject}

\* C2: a failed upload does not stop the batch: when uploadDirectory returns,
\* every discovered file has been attempted, the entry of a file whose upload
\* failed is marked failed and carries the error, and every entry is marked
\* succeeded exactly when its own upload succeeded.
C2_FailuresIsolated ==
  Returned =>
    /\ calls.readFile = Len(pngFiles)
    /\ \A i \in 1..Len(pngFiles) :
         /\ stages[i] = "done"
         /\ i \in DOMAIN uploadResults
         /\ uploadResults[i].success <=> OwnUploadSucceeded(i)
         /\ ~uploadResults[i].success <=> uploadResults[i].error # NoError

C2_Witness ==
  /\ Returned
  /\ Len(uploadResults) = 3
  /\ uploadResults[1].success
  /\ ~uploadResults[2].success
  /\ uploadResults[2].error.kind = "Upload failed"
  /\ uploadResults[3].success
  /\ calls.fetch = 3

\* C3: at most one request is in flight at any time, the upload of a file
\* starts only after the uploads of all earlier files have completed, and no
\* file is the subject of more than one request.
C3_OneRequestAtATime ==
  /\ Cardinality(inflight) <= 1
  /\ \A i \in DOMAIN stages :
       /\ requests[i] <= 1
       /\ stages[i] \in {"reading", "fetching"} =>
            \A j \in DOMAIN stages : j # i =>
              stages[j] = (IF j < i THEN "done" ELSE "idle")

C3_Witness ==
  /\ Len(stages) = 3
  /\ inflight = {2}
  /\ stages[1] = "done"
  /\ requests[1] = 1
  /\ stages[3] = "idle"

\* C4: with both credentials present and the directory existing, main ends
\* with code 1 exactly when an upload failed or an unexpected exception
\* reached the top-level handler, and with code 0 otherwise (all uploads
\* succeeded, or no PNG file was found).
C4_ExitCodeReflectsFailures ==
  (pc = "exited" /\ CredentialsPresent /\ dirExists) =>
    /\ exitCode \in {0, 1}
    /\ exitCode = 1 <=> (threw \/ HasFailure)
    /\ (pngFiles = <<>> /\ ~threw) => exitCode = 0
    /\ threw => exitCode = 1

C4_Witness ==
  /\ pc = "exited"
  /\ CredentialsPresent
  /\ dirExists
  /\ exitCode = 1
  /\ HasFailure
  /\ HasSuccess

\* C5: when a credential is unset or empty, main exits with code 1 and no
\* I/O is ever done: no access check, no directory scan, no file read, no
\* request.
C5_MissingCredentialsNoIO ==
  ~CredentialsPresent =>
    /\ calls = NoCalls
    /\ pc \in {"main", "exited"}
    /\ pc = "exited" => exitCode = 1

C5_Witness ==
  /\ pc = "exited"
  /\ env.MICROCMS_SERVICE_DOMAIN = EnvStr("example")
  /\ env.MICROCMS_API_KEY = EnvStr("")
  /\ exitCode = 1

\* C6: with both credentials present and the directory absent, main exits
\* with code 0, never 1, and neither scans the directory nor attempts an
\* upload.
C6_AbsentDirectoryExitsZero ==
  (CredentialsPresent /\ ~dirExists) =>
    /\ calls.readdir = 0 /\ calls.readFile = 0 /\ calls.fetch = 0
    /\ pc \in {"main", "access", "exited"}
    /\ exitCode # 1
    /\ pc = "exited" => exitCode = 0

C6_Witness ==
  /\ pc = "exited"
  /\ CredentialsPresent
  /\ ~dirExists
  /\ calls.access = 1
  /\ exitCode = 0

\* the path findPngFiles builds for entry k of the tree
RECURSIVE PathOf(_)
PathOf(k) ==
  IF k = 0 THEN screenshotsPath ELSE Append(PathOf(tree[k].parent), tree[k].name)

\* readdir succeeds on the root and on every directory above entry k
RECURSIVE Reachable(_)
Reachable(k) ==
  IF k = 0 THEN rootReadable
  ELSE LET p == tree[k].parent
       IN Reachable(p) /\ (p = 0 \/ tree[p].readable)

\* the name, lowercased, ends in '.png'
EndsInPng(name) ==
  /\ Len(name) >= 4
  /\ name[Len(name) - 3] = "."
  /\ name[Len(name) - 2] \in {"p", "P"}
  /\ name[Len(name) - 1] \in {"n", "N"}
  /\ name[Len(name)] \in {"g", "G"}

PngEntries == {k \in 1..Len(tree) : tree[k].kind = "file" /\ EndsInPng(tree[k].name)}

NoDuplicates(seq) == \A i, j \in DOMAIN seq : i # j => seq[i] # seq[j]

FullyReadable == rootReadable /\ \A k \in 1..Len(tree) : tree[k].readable

\* C7: on a fully readable tree findPngFiles returns without failing exactly
\* the regular files, at any depth, whose lowercased name ends in '.png',
\* each once; no other file and no directory is returned, and the list is
\* empty when nothing matches.
C7_FindsExactlyThePngFiles ==
  (pc = "found" /\ FullyReadable) =>
    /\ ~threw
    /\ NoDuplicates(pngFiles)
    /\ Range(pngFiles) = {PathOf(k) : k \in PngEntries}
    /\ PngEntries = {} => pngFiles = <<>>

C7_Witness ==
  /\ pc = "found"
  /\ FullyReadable
  /\ Len(tree) = 3
  /\ \E k \in PngEntries :
       /\ tree[k].parent # 0
       /\ tree[k].name # toLowerCase(tree[k].name)
       /\ PathOf(k) \in Range(pngFiles)
  /\ \E k \in 1..Len(tree) : tree[k].kind # "dir" /\ PathOf(k) \notin Range(pngFiles)

\* C8: an unreadable directory never makes findPngFiles fail and removes
\* only what lies below it: the result holds, once each, exactly the PNG files
\* all of whose enclosing directories are readable, so the files found
\* before the unreadable directory and those found after it are returned.
C8_UnreadableDirectorySkipped ==
  pc = "found" =>
    /\ ~threw
    /\ NoDuplicates(pngFiles)
    /\ Range(pngFiles) = {PathOf(k) : k \in {e \in PngEntries : Reachable(e)}}

C8_Witness ==
  /\ pc = "found"
  /\ \E d \in 1..Len(tree) :
       /\ tree[d].kind = "dir"
       /\ ~tree[d].readable
       /\ \E k \in 1..Len(tree) : k < d /\ PathOf(k) \in Range(pngFiles)
       /\ \E k \in 1..Len(tree) : k > d /\ PathOf(k) \in Range(pngFiles)

JsonBlock == <<"--- UPLOAD_RESULTS_JSON ---", "JSON", "--- END_UPLOAD_RESULTS_JSON ---">>
SummaryLines == <<"UploadSummary", "Successful", "Failed:">>

EndsWithLines(lines) ==
  /\ Len(out) >= Len(lines)
  /\ SubSeq(out, Len(out) - Len(lines) + 1, Len(out)) = lines

\* C10: once the batch runner has returned and main has passed the JSON
\* step, the delimited JSON block has been printed exactly when
\* GITHUB_ACTIONS is 'true'; it directly follows the summary lines and is
\* printed before the process exits, whatever the exit code; its successful
\* and failed lists partition the results and total is their number.
C10_JsonBlockIffGithubActions ==
  (Returned /\ pc \in {"exit", "exited"}) =>
    /\ jsonOutput # <<>> <=> env.GITHUB_ACTIONS = EnvStr("true")
    /\ jsonOutput # <<>> <=> (\E k \in DOMAIN out : out[k] = JsonBlock[1])
    /\ IF jsonOutput = <<>>
         THEN EndsWithLines(SummaryLines)
         ELSE /\ EndsWithLines(SummaryLines \o JsonBlock)
              /\ LET o == jsonOutput[1]
                 IN /\ o.total = Len(uploadResults)
                    /\ o.total = Len(o.successful) + Len(o.failed)
                    /\ \A r \in Range(uploadResults) :
                         (r \in Range(o.successful)) # (r \in Range(o.failed))
                    /\ Range(o.successful) \cup Range(o.failed) = Range(uploadResults)
                    /\ \A r \in Range(o.successful) : r.success
                    /\ \A r \in Range(o.failed) : ~r.success

C10_Witness ==
  /\ pc = "exited"
  /\ exitCode = 1
  /\ jsonOutput # <<>>
  /\ Len(jsonOutput[1].failed) >= 1
  /\ Len(jsonOutput[1].successful) >= 1
  /\ jsonOutput[1].total = 3
====
